---------------------------- MODULE Spec2Model ----------------------------
(***************************************************************************)
(* Model of the exercises of the repository:                               *)
(*   task3.py  Edge, Graph, DijkstraResult, DijkstraAlgorithm              *)
(*   task1.py  Node, LinkedList, reverse / merge / merge sort              *)
(*   task4.py  Node, heap_to_tree, visualize_heap                          *)
(*   task5.py  Node, dfs_traversal, bfs_traversal                          *)
(*   task6.py  greedy_algorithm, dynamic_programming, main's comparison    *)
(* Each script is self-contained, so each has its own specification over   *)
(* its own variables; the variables of the other scripts stay as Init      *)
(* leaves them.                                                            *)
(***************************************************************************)
EXTENDS Integers, Sequences, FiniteSets, Bags, TLC

VARIABLES
    \* ---- task3.py: Graph
    vertices,        \* Graph.vertices
    adjacency_list,  \* Graph.adjacency_list: vertex -> sequence of Edge
    \* ---- task3.py: find_shortest_paths locals, kept by DijkstraResult
    distances,       \* vertex -> distance (INF for float('inf'))
    predecessors,    \* vertex -> vertex or NONE
    source,          \* the source of the running / finished computation
    min_heap,        \* the heap of (distance, vertex) tuples
    visited,         \* the set of visited vertices
    current_vertex,  \* the vertex popped by the running loop iteration
    edge_index,      \* position of the for loop in get_neighbors(current_vertex)
    pushes,          \* how many entries the run has put on the heap so far,
                     \* the entry the heap starts with included
    relaxed,         \* the vertices whose for loop the run has entered, in
                     \* the order it entered them
    \* ---- task3.py: the caller's view
    pc,              \* "start" | "graph" | "loop" | "for" | "done" | "raised"
    arg,             \* the vertex argument of the last find_shortest_paths,
                     \* get_path or get_distance call
    raised,          \* "none" | "ValueError": how the last call ended
    ret,             \* the last get_path / get_distance call and its value
    \* ---- task1.py: the Node and LinkedList objects
    data,            \* Node.data: data[i] is the data of node i
    next,            \* Node.next: next[i] is the node after node i, or NULL
    head,            \* LinkedList.head: head[l] is the first node of list l
    call,            \* the last function called on the lists, with what
                     \* its arguments held before and what it returned
    \* ---- task6.py: the arguments and the results of one round of main
    items,           \* the item table: items[name] = [cost, calories], the
                     \* names 1 .. Len(items) in the order of the dict
    budget,          \* the budget of the round
    greedy_result,   \* what greedy_algorithm(items, budget) returned
    dp_result,       \* what dynamic_programming(items, budget) returned
    verdict,         \* the branch main's comparison took
    \* ---- task5.py: the Node objects of the tree
    left,            \* Node.left: left[i] is the left child of node i, or NULL
    right,           \* Node.right
    root,            \* the root of the tree, NULL while there is none
    traversal,       \* the last traversal: its function, its argument, the
                     \* tree it was called on and the list it returned
    \* ---- task4.py: a heap array and the Node objects made from it
    heap_array,      \* the list given to visualize_heap and heap_to_tree
    nodes,           \* the Node objects created, in the order of creation
    drawn,           \* the roots draw_tree was called with
    heap_call        \* the last call of visualize_heap or heap_to_tree

vars3 == <<vertices, adjacency_list, distances, predecessors, source, min_heap,
           visited, current_vertex, edge_index, pushes, relaxed, pc, arg,
           raised, ret>>

vars1 == <<data, next, head, call>>

vars6 == <<items, budget, greedy_result, dp_result, verdict>>

vars5 == <<left, right, root, traversal>>

vars4 == <<heap_array, nodes, drawn, heap_call>>

vars == <<vars3, vars1, vars6, vars5, vars4>>

\* what the steps of one script leave alone: the other scripts
rest3 == <<vars1, vars6, vars5, vars4>>

rest1 == <<vars3, vars6, vars5, vars4>>

rest6 == <<vars3, vars1, vars5, vars4>>

rest5 == <<vars3, vars1, vars6, vars4>>

rest4 == <<vars3, vars1, vars6, vars5>>

-----------------------------------------------------------------------------
(* Bounds and input sets of the task3 model *)

\* most edges the model stores in adjacency_list
MaxEdges == 3

\* the vertex counts Graph is constructed with (0 is rejected)
VertexCountArgs == {0, 1, 2, 3}

\* the weights add_edge is called with (-1 is rejected)
WeightArgs == {-1, 0, 1}

\* float('inf'), kept apart from every finite distance
INF == -1

\* None, as a predecessor and as a missing vertex argument
NONE == -1

\* the vertex arguments calls are made with: every vertex, and one value
\* on each side of the range [0, vertices-1]
VertexArgs == (-1) .. vertices

\* the arguments add_edge accepts
ValidVertexArgs == 0 .. (vertices - 1)

ValidWeightArgs == {weight \in WeightArgs : weight >= 0}

-----------------------------------------------------------------------------
(* float arithmetic on distances, with float('inf') *)

\* a < b
FloatLess(a, b) == a # INF /\ (b = INF \/ a < b)

\* a + w for a finite weight w
FloatAdd(a, w) == IF a = INF THEN INF ELSE a + w

-----------------------------------------------------------------------------
(* Edge and Graph *)

\* faulty variant: the weight check is missing
EdgeRaises_NoCheck(weight) == FALSE

\* Edge.__post_init__: TRUE when it raises ValueError
EdgeRaises(weight) == weight < 0

Edge(destination, weight) == [destination |-> destination, weight |-> weight]

\* number of edges stored in an adjacency list
RECURSIVE EdgeCountUpTo(_, _)
EdgeCountUpTo(adj, k) ==
    IF k < 0 THEN 0
    ELSE (IF k \in DOMAIN adj THEN Len(adj[k]) ELSE 0) + EdgeCountUpTo(adj, k - 1)

EdgeCount(adj) == EdgeCountUpTo(adj, vertices - 1)

\* Graph.__post_init__ on Graph(vertices=n) with the default adjacency list
GraphPostInit(n) ==
    /\ pc = "start"
    /\ IF n <= 0
         THEN /\ raised' = "ValueError"
              /\ UNCHANGED <<vertices, adjacency_list, pc>>
         ELSE /\ raised' = "none"
              /\ vertices' = n
              /\ adjacency_list' = [i \in 0 .. (n - 1) |-> <<>>]
              /\ pc' = "graph"
    /\ UNCHANGED <<distances, predecessors, source, min_heap, visited,
                   current_vertex, edge_index, arg, ret>>
    /\ UNCHANGED <<pushes, relaxed>>
    /\ UNCHANGED rest3

\* faulty variant: the edge is appended before the destination and the
\* weight are validated
AddEdgeResult_AppendFirst(adj, src, dst, weight) ==
    IF ~(0 <= src /\ src < vertices)
      THEN [raised |-> "ValueError", adj |-> adj]
      ELSE [raised |-> IF (0 <= dst /\ dst < vertices) /\ ~EdgeRaises(weight)
                         THEN "none" ELSE "ValueError",
            adj |-> [adj EXCEPT ![src] = Append(@, Edge(dst, weight))]]

\* the effect of Graph.add_edge on an adjacency list:
\* [raised, adj], adj being the list the call leaves behind
AddEdgeResult(adj, src, dst, weight) ==
    IF ~(0 <= src /\ src < vertices /\ 0 <= dst /\ dst < vertices)
      THEN [raised |-> "ValueError", adj |-> adj]
    ELSE IF EdgeRaises(weight)
      THEN [raised |-> "ValueError", adj |-> adj]
    ELSE [raised |-> "none",
          adj |-> [adj EXCEPT ![src] = Append(@, Edge(dst, weight))]]

\* Graph.add_edge(src, dst, weight)
add_edge(src, dst, weight) ==
    /\ pc = "graph"
    /\ LET r == AddEdgeResult(adjacency_list, src, dst, weight) IN
         /\ EdgeCount(r.adj) <= MaxEdges
         /\ adjacency_list' = r.adj
         /\ raised' = r.raised
    /\ UNCHANGED <<vertices, distances, predecessors, source, min_heap, visited,
                   current_vertex, edge_index, pc, arg, ret>>
    /\ UNCHANGED <<pushes, relaxed>>
    /\ UNCHANGED rest3

\* Graph.add_bidirectional_edge(vertex1, vertex2, weight): two add_edge
\* calls, the second made only when the first returns
add_bidirectional_edge(vertex1, vertex2, weight) ==
    /\ pc = "graph"
    /\ LET r1 == AddEdgeResult(adjacency_list, vertex1, vertex2, weight)
           r2 == IF r1.raised = "none"
                   THEN AddEdgeResult(r1.adj, vertex2, vertex1, weight)
                   ELSE r1
       IN
         /\ EdgeCount(r2.adj) <= MaxEdges
         /\ adjacency_list' = r2.adj
         /\ raised' = r2.raised
    /\ UNCHANGED <<vertices, distances, predecessors, source, min_heap, visited,
                   current_vertex, edge_index, pc, arg, ret>>
    /\ UNCHANGED <<pushes, relaxed>>
    /\ UNCHANGED rest3

\* Graph.get_neighbors(vertex)
get_neighbors(vertex) ==
    IF vertex \notin DOMAIN adjacency_list THEN <<>> ELSE adjacency_list[vertex]

-----------------------------------------------------------------------------
(* heapq on (distance, vertex) tuples: the heap is kept as the sorted       *)
(* sequence of its entries, so that heappop returns the least tuple         *)

\* tuple comparison a < b, as Python compares (distance, vertex) tuples
TupleLess(a, b) == a[1] < b[1] \/ (a[1] = b[1] /\ a[2] < b[2])

\* heapq.heappush(heap, item)
RECURSIVE heappush(_, _)
heappush(heap, item) ==
    IF heap = <<>> THEN <<item>>
    ELSE IF TupleLess(item, Head(heap)) THEN <<item>> \o heap
    ELSE <<Head(heap)>> \o heappush(Tail(heap), item)

\* faulty variant: the greatest tuple is popped
heappop_Greatest(heap) ==
    [item |-> heap[Len(heap)], heap |-> SubSeq(heap, 1, Len(heap) - 1)]

\* heapq.heappop(heap): the item returned and the heap left
heappop(heap) == [item |-> Head(heap), heap |-> Tail(heap)]

-----------------------------------------------------------------------------
(* DijkstraAlgorithm.find_shortest_paths *)

\* faulty variant: only the upper end of the range is checked
SourceInRange_UpperOnly(src) == src < vertices

\* the range check on source
SourceInRange(src) == 0 <= src /\ src < vertices

\* the call: validation of source and initialisation of the locals
find_shortest_paths(src) ==
    /\ pc = "graph"
    /\ arg' = src
    /\ IF ~SourceInRange(src)
         THEN /\ raised' = "ValueError"
              /\ pc' = "raised"
              /\ UNCHANGED <<distances, predecessors, source, min_heap, visited,
                             pushes, relaxed>>
         ELSE /\ raised' = "none"
              /\ distances' = (src :> 0) @@ [i \in 0 .. (vertices - 1) |-> INF]
              /\ predecessors' = [i \in 0 .. (vertices - 1) |-> NONE]
              /\ source' = src
              /\ min_heap' = <<<<0, src>>>>
              /\ pushes' = 1
              /\ relaxed' = <<>>
              /\ visited' = {}
              /\ pc' = "loop"
    /\ UNCHANGED <<vertices, adjacency_list, current_vertex, edge_index, ret>>
    /\ UNCHANGED rest3

\* faulty variant: neither a visited vertex nor a stale entry is skipped
PopVertex_NoSkip ==
    /\ pc = "loop"
    /\ min_heap # <<>>
    /\ LET popped == heappop(min_heap)
           current_distance == popped.item[1]
           vertex == popped.item[2]
       IN
         /\ min_heap' = popped.heap
         /\ visited' = visited \cup {vertex}
         /\ current_vertex' = vertex
         /\ edge_index' = 1
         /\ relaxed' = Append(relaxed, vertex)
         /\ pc' = "for"
    /\ UNCHANGED <<vertices, adjacency_list, distances, predecessors, source,
                   arg, raised, ret>>
    /\ UNCHANGED pushes
    /\ UNCHANGED rest3

\* faulty variant: the entry of a visited vertex stays on the heap
PopVertex_KeepStale ==
    /\ pc = "loop"
    /\ min_heap # <<>>
    /\ LET popped == heappop(min_heap)
           current_distance == popped.item[1]
           vertex == popped.item[2]
       IN
         /\ min_heap' = IF vertex \in visited THEN min_heap ELSE popped.heap
         /\ IF vertex \in visited
              THEN UNCHANGED <<visited, current_vertex, edge_index, relaxed,
                               pc>>
              ELSE /\ visited' = visited \cup {vertex}
                   /\ IF current_distance > distances[vertex]
                        THEN UNCHANGED <<current_vertex, edge_index, relaxed,
                                         pc>>
                        ELSE /\ current_vertex' = vertex
                             /\ edge_index' = 1
                             /\ relaxed' = Append(relaxed, vertex)
                             /\ pc' = "for"
    /\ UNCHANGED <<vertices, adjacency_list, distances, predecessors, source,
                   arg, raised, ret>>
    /\ UNCHANGED pushes
    /\ UNCHANGED rest3

\* one pass of the while loop up to the for loop: pop, skip a visited
\* vertex, mark the vertex visited, skip a stale entry
PopVertex ==
    /\ pc = "loop"
    /\ min_heap # <<>>
    /\ LET popped == heappop(min_heap)
           current_distance == popped.item[1]
           vertex == popped.item[2]
       IN
         /\ min_heap' = popped.heap
         /\ IF vertex \in visited
              THEN UNCHANGED <<visited, current_vertex, edge_index, relaxed,
                               pc>>
              ELSE /\ visited' = visited \cup {vertex}
                   /\ IF current_distance > distances[vertex]
                        THEN UNCHANGED <<current_vertex, edge_index, relaxed,
                                         pc>>
                        ELSE /\ current_vertex' = vertex
                             /\ edge_index' = 1
                             /\ relaxed' = Append(relaxed, vertex)
                             /\ pc' = "for"
    /\ UNCHANGED <<vertices, adjacency_list, distances, predecessors, source,
                   arg, raised, ret>>
    /\ UNCHANGED pushes
    /\ UNCHANGED rest3

\* faulty variant: visited neighbours are not skipped and a tie counts as
\* a shorter path
RelaxEdge_NoSkip ==
    /\ pc = "for"
    /\ edge_index <= Len(get_neighbors(current_vertex))
    /\ LET edge == get_neighbors(current_vertex)[edge_index]
           neighbor == edge.destination
           weight == edge.weight
           new_distance == FloatAdd(distances[current_vertex], weight)
       IN
         IF ~FloatLess(distances[neighbor], new_distance)
           THEN /\ distances' = [distances EXCEPT ![neighbor] = new_distance]
                /\ predecessors' = [predecessors EXCEPT ![neighbor] = current_vertex]
                /\ min_heap' = heappush(min_heap, <<new_distance, neighbor>>)
                /\ pushes' = pushes + 1
           ELSE UNCHANGED <<distances, predecessors, min_heap, pushes>>
    /\ edge_index' = edge_index + 1
    /\ UNCHANGED <<vertices, adjacency_list, source, visited, current_vertex,
                   pc, arg, raised, ret>>
    /\ UNCHANGED relaxed
    /\ UNCHANGED rest3

\* faulty variant: the neighbour is recorded as its own predecessor
RelaxEdge_PredecessorIsNeighbor ==
    /\ pc = "for"
    /\ edge_index <= Len(get_neighbors(current_vertex))
    /\ LET edge == get_neighbors(current_vertex)[edge_index]
           neighbor == edge.destination
           weight == edge.weight
           new_distance == FloatAdd(distances[current_vertex], weight)
       IN
         IF neighbor \in visited
           THEN UNCHANGED <<distances, predecessors, min_heap, pushes>>
         ELSE IF FloatLess(new_distance, distances[neighbor])
           THEN /\ distances' = [distances EXCEPT ![neighbor] = new_distance]
                /\ predecessors' = [predecessors EXCEPT ![neighbor] = neighbor]
                /\ min_heap' = heappush(min_heap, <<new_distance, neighbor>>)
                /\ pushes' = pushes + 1
         ELSE UNCHANGED <<distances, predecessors, min_heap, pushes>>
    /\ edge_index' = edge_index + 1
    /\ UNCHANGED <<vertices, adjacency_list, source, visited, current_vertex,
                   pc, arg, raised, ret>>
    /\ UNCHANGED relaxed
    /\ UNCHANGED rest3

\* one pass of the for loop over get_neighbors(current_vertex)
RelaxEdge ==
    /\ pc = "for"
    /\ edge_index <= Len(get_neighbors(current_vertex))
    /\ LET edge == get_neighbors(current_vertex)[edge_index]
           neighbor == edge.destination
           weight == edge.weight
           new_distance == FloatAdd(distances[current_vertex], weight)
       IN
         IF neighbor \in visited
           THEN UNCHANGED <<distances, predecessors, min_heap, pushes>>
         ELSE IF FloatLess(new_distance, distances[neighbor])
           THEN /\ distances' = [distances EXCEPT ![neighbor] = new_distance]
                /\ predecessors' = [predecessors EXCEPT ![neighbor] = current_vertex]
                /\ min_heap' = heappush(min_heap, <<new_distance, neighbor>>)
                /\ pushes' = pushes + 1
         ELSE UNCHANGED <<distances, predecessors, min_heap, pushes>>
    /\ edge_index' = edge_index + 1
    /\ UNCHANGED <<vertices, adjacency_list, source, visited, current_vertex,
                   pc, arg, raised, ret>>
    /\ UNCHANGED relaxed
    /\ UNCHANGED rest3

\* the for loop is exhausted: back to the while test
EndFor ==
    /\ pc = "for"
    /\ edge_index > Len(get_neighbors(current_vertex))
    /\ pc' = "loop"
    /\ UNCHANGED <<vertices, adjacency_list, distances, predecessors, source,
                   min_heap, visited, current_vertex, edge_index, arg,
                   raised, ret>>
    /\ UNCHANGED <<pushes, relaxed>>
    /\ UNCHANGED rest3

\* the heap is empty: DijkstraResult(distances, predecessors, source)
ReturnResult ==
    /\ pc = "loop"
    /\ min_heap = <<>>
    /\ pc' = "done"
    /\ UNCHANGED <<vertices, adjacency_list, distances, predecessors, source,
                   min_heap, visited, current_vertex, edge_index, arg,
                   raised, ret>>
    /\ UNCHANGED <<pushes, relaxed>>
    /\ UNCHANGED rest3

-----------------------------------------------------------------------------
(* DijkstraResult *)

\* list.reverse()
RECURSIVE Reverse(_)
Reverse(seq) ==
    IF seq = <<>> THEN <<>> ELSE Append(Reverse(Tail(seq)), Head(seq))

\* dict.get(key) on predecessors: None for a missing key
PredecessorsGet(key) ==
    IF key \in DOMAIN predecessors THEN predecessors[key] ELSE NONE

\* the while loop of get_path: [returns, path]; a walk longer than the
\* number of keys repeats a vertex, and the loop then never ends
RECURSIVE WalkBack(_, _)
WalkBack(current, path) ==
    IF current = NONE THEN [returns |-> TRUE, path |-> path]
    ELSE IF Len(path) > Cardinality(DOMAIN predecessors)
      THEN [returns |-> FALSE, path |-> path]
    ELSE WalkBack(PredecessorsGet(current), Append(path, current))

\* faulty variant: the path is returned as collected, destination first
GetPathValue_NoReverse(destination) ==
    IF destination \notin DOMAIN distances THEN [kind |-> "None"]
    ELSE IF distances[destination] = INF THEN [kind |-> "None"]
    ELSE [kind |-> "list", value |-> WalkBack(destination, <<>>).path]

\* the value DijkstraResult.get_path(destination) returns
GetPathValue(destination) ==
    IF destination \notin DOMAIN distances THEN [kind |-> "None"]
    ELSE IF distances[destination] = INF THEN [kind |-> "None"]
    ELSE [kind |-> "list", value |-> Reverse(WalkBack(destination, <<>>).path)]

\* get_path returns unless its while loop runs for ever
GetPathReturns(destination) ==
    IF destination \notin DOMAIN distances THEN TRUE
    ELSE IF distances[destination] = INF THEN TRUE
    ELSE WalkBack(destination, <<>>).returns

\* DijkstraResult.get_path(destination)
get_path(destination) ==
    /\ pc = "done"
    /\ GetPathReturns(destination)
    /\ arg' = destination
    /\ raised' = "none"
    /\ ret' = [op |-> "get_path"] @@ GetPathValue(destination)
    /\ UNCHANGED <<vertices, adjacency_list, distances, predecessors, source,
                   min_heap, visited, current_vertex, edge_index, pc>>
    /\ UNCHANGED <<pushes, relaxed>>
    /\ UNCHANGED rest3

\* faulty variant: a missing key is looked up with distances[destination]
GetDistanceValue_NoDefault(destination) ==
    IF destination \in DOMAIN distances
      THEN [kind |-> "float", value |-> distances[destination]]
      ELSE [kind |-> "KeyError"]

\* the value DijkstraResult.get_distance(destination) returns:
\* distances.get(destination, float('inf'))
GetDistanceValue(destination) ==
    IF destination \in DOMAIN distances
      THEN [kind |-> "float", value |-> distances[destination]]
      ELSE [kind |-> "float", value |-> INF]

\* DijkstraResult.get_distance(destination)
get_distance(destination) ==
    /\ pc = "done"
    /\ arg' = destination
    /\ raised' = IF GetDistanceValue(destination).kind = "KeyError"
                   THEN "KeyError" ELSE "none"
    /\ ret' = [op |-> "get_distance"] @@ GetDistanceValue(destination)
    /\ UNCHANGED <<vertices, adjacency_list, distances, predecessors, source,
                   min_heap, visited, current_vertex, edge_index, pc>>
    /\ UNCHANGED <<pushes, relaxed>>
    /\ UNCHANGED rest3

-----------------------------------------------------------------------------
(* task1.py: Node and LinkedList.  Nodes and lists are numbered in the      *)
(* order they are created; a function that loops is the recursion of its    *)
(* loop body over the next pointers.                                        *)

\* most Node objects the model creates
MaxNodes == 4

\* most LinkedList objects the model holds, those merge_sorted_lists
\* creates included
MaxLists == 3

\* the data nodes are created with
DataArgs == {0, 1, 2}

\* None, as a next pointer and as a head
NULL == 0

Lists == 1 .. Len(head)

\* the chain from node h ends (at None) within steps nodes
RECURSIVE EndsWithin(_, _, _)
EndsWithin(h, nxt, steps) ==
    IF h = NULL THEN TRUE
    ELSE IF steps = 0 THEN FALSE
    ELSE EndsWithin(nxt[h], nxt, steps - 1)

\* the chain from h is finite: a walk of more nodes than there are repeats one
Acyclic(h, nxt) == EndsWithin(h, nxt, Len(nxt))

\* the nodes of the finite chain from h, in order
RECURSIVE Chain(_, _)
Chain(h, nxt) == IF h = NULL THEN <<>> ELSE <<h>> \o Chain(nxt[h], nxt)

\* the while loop of LinkedList.to_list on the finite chain from h
RECURSIVE ToListFrom(_, _)
ToListFrom(h, nxt) ==
    IF h = NULL THEN <<>> ELSE <<data[h]>> \o ToListFrom(nxt[h], nxt)

\* LinkedList.to_list()
to_list(l) == ToListFrom(head[l], next)

\* LinkedList.insert_at_beginning(data)
insert_at_beginning(l, d) ==
    /\ Len(data) < MaxNodes
    /\ data' = Append(data, d)
    /\ next' = Append(next, head[l])
    /\ head' = [head EXCEPT ![l] = Len(data) + 1]
    /\ call' = [op |-> "insert_at_beginning", list |-> l]
    /\ UNCHANGED rest1

\* the while loop of insert_at_end: the last node of the finite chain
RECURSIVE LastNode(_, _)
LastNode(current, nxt) ==
    IF nxt[current] # NULL THEN LastNode(nxt[current], nxt) ELSE current

\* LinkedList.insert_at_end(data)
insert_at_end(l, d) ==
    /\ Len(data) < MaxNodes
    /\ Acyclic(head[l], next)
    /\ data' = Append(data, d)
    /\ IF head[l] = NULL
         THEN /\ head' = [head EXCEPT ![l] = Len(data) + 1]
              /\ next' = Append(next, NULL)
         ELSE /\ next' = [Append(next, NULL) EXCEPT
                             ![LastNode(head[l], next)] = Len(data) + 1]
              /\ UNCHANGED head
    /\ call' = [op |-> "insert_at_end", list |-> l]
    /\ UNCHANGED rest1

\* faulty variant: the loop stops at the last node, which is left out
RECURSIVE ReverseLoop_StopEarly(_, _, _)
ReverseLoop_StopEarly(prev, current, nxt) ==
    IF current # NULL /\ nxt[current] # NULL
      THEN ReverseLoop_StopEarly(current, nxt[current],
                                 [nxt EXCEPT ![current] = prev])
      ELSE [prev |-> prev, next |-> nxt]

\* the while loop of reverse_linked_list: [prev, next] when it ends
RECURSIVE ReverseLoop(_, _, _)
ReverseLoop(prev, current, nxt) ==
    IF current # NULL
      THEN ReverseLoop(current, nxt[current], [nxt EXCEPT ![current] = prev])
      ELSE [prev |-> prev, next |-> nxt]

\* the effect of reverse_linked_list on the list with head h:
\* [head, next, result], result being the list returned
ReverseResult(l, h, nxt) ==
    LET r == ReverseLoop(NULL, h, nxt) IN
      [head |-> r.prev, next |-> r.next, result |-> l]

\* reverse_linked_list(linked_list)
reverse_linked_list(l) ==
    /\ Acyclic(head[l], next)
    /\ LET r == ReverseResult(l, head[l], next) IN
         /\ next' = r.next
         /\ head' = [head EXCEPT ![l] = r.head]
         /\ call' = [op |-> "reverse_linked_list", list |-> l,
                     before |-> to_list(l), nodes |-> Chain(head[l], next),
                     result |-> r.result]
    /\ UNCHANGED data
    /\ UNCHANGED rest1

\* faulty variant: after the loop only the rest of the first list is
\* linked, so the rest of the second list is lost
RECURSIVE MergeListsLoop_DropRest(_, _, _, _, _)
MergeListsLoop_DropRest(node1, node2, tail, nxt, seen) ==
    IF node1 # NULL /\ node2 # NULL
      THEN IF <<node1, node2, tail, nxt>> \in seen
             THEN [returns |-> FALSE, next |-> nxt]
           ELSE IF data[node1] <= data[node2]
             THEN LET linked == [nxt EXCEPT ![tail] = node1] IN
                    MergeListsLoop_DropRest(linked[node1], node2, linked[tail],
                        linked, seen \cup {<<node1, node2, tail, nxt>>})
           ELSE LET linked == [nxt EXCEPT ![tail] = node2] IN
                    MergeListsLoop_DropRest(node1, linked[node2], linked[tail],
                        linked, seen \cup {<<node1, node2, tail, nxt>>})
      ELSE [returns |-> TRUE, next |-> [nxt EXCEPT ![tail] = node1]]

\* the while loop of merge_sorted_lists and the assignment after it:
\* [returns, next]; tail.next is assigned before node1.next (node2.next) is
\* read.  The loop runs for ever when it comes back to a state it was in
\* (seen), which lists that share nodes can make it do.
RECURSIVE MergeListsLoop(_, _, _, _, _)
MergeListsLoop(node1, node2, tail, nxt, seen) ==
    IF node1 # NULL /\ node2 # NULL
      THEN IF <<node1, node2, tail, nxt>> \in seen
             THEN [returns |-> FALSE, next |-> nxt]
           ELSE IF data[node1] <= data[node2]
             THEN LET linked == [nxt EXCEPT ![tail] = node1] IN
                    MergeListsLoop(linked[node1], node2, linked[tail], linked,
                                   seen \cup {<<node1, node2, tail, nxt>>})
           ELSE LET linked == [nxt EXCEPT ![tail] = node2] IN
                    MergeListsLoop(node1, linked[node2], linked[tail], linked,
                                   seen \cup {<<node1, node2, tail, nxt>>})
      ELSE [returns |-> TRUE,
            next |-> [nxt EXCEPT ![tail] = IF node1 # NULL THEN node1 ELSE node2]]

\* the effect of merge_sorted_lists on the lists with heads h1 and h2:
\* [returns, head, next], head being the head of the new list.  The dummy
\* node is the node after the last one; nothing points to it, and it is
\* dropped when the function returns.
MergeListsResult(h1, h2, nxt) ==
    LET dummy == Len(nxt) + 1
        r == MergeListsLoop(h1, h2, dummy, Append(nxt, NULL), {})
    IN  [returns |-> r.returns,
         head |-> r.next[dummy],
         next |-> SubSeq(r.next, 1, Len(nxt))]

\* two chains have a node in common
SharesNodes(h1, h2, nxt) ==
    \E i \in 1 .. Len(Chain(h1, nxt)), j \in 1 .. Len(Chain(h2, nxt)) :
        Chain(h1, nxt)[i] = Chain(h2, nxt)[j]

\* merge_sorted_lists(list1, list2), which returns a new LinkedList
merge_sorted_lists(l1, l2) ==
    /\ Len(head) < MaxLists
    /\ Acyclic(head[l1], next)
    /\ Acyclic(head[l2], next)
    /\ LET r == MergeListsResult(head[l1], head[l2], next) IN
         /\ r.returns
         /\ next' = r.next
         /\ head' = Append(head, r.head)
         /\ call' = [op |-> "merge_sorted_lists", list1 |-> l1, list2 |-> l2,
                     before1 |-> to_list(l1), before2 |-> to_list(l2),
                     shared |-> SharesNodes(head[l1], head[l2], next),
                     result |-> Len(head) + 1]
    /\ UNCHANGED data
    /\ UNCHANGED rest1

\* faulty variant: slow is never moved on
RECURSIVE GetMiddleLoop_SlowStays(_, _, _)
GetMiddleLoop_SlowStays(slow, fast, nxt) ==
    IF fast # NULL /\ nxt[fast] # NULL /\ nxt[nxt[fast]] # NULL
      THEN GetMiddleLoop_SlowStays(slow, nxt[nxt[fast]], nxt)
      ELSE slow

\* the while loop of get_middle
RECURSIVE GetMiddleLoop(_, _, _)
GetMiddleLoop(slow, fast, nxt) ==
    IF fast # NULL /\ nxt[fast] # NULL /\ nxt[nxt[fast]] # NULL
      THEN GetMiddleLoop(IF slow # NULL THEN nxt[slow] ELSE slow,
                         nxt[nxt[fast]], nxt)
      ELSE slow

\* get_middle(head)
get_middle(h, nxt) == IF h = NULL THEN NULL ELSE GetMiddleLoop(h, h, nxt)

\* faulty variant: the node that is greater is linked first
RECURSIVE MergeNodesLoop_Greater(_, _, _, _)
MergeNodesLoop_Greater(node1, node2, tail, nxt) ==
    IF node1 # NULL /\ node2 # NULL
      THEN IF data[node1] >= data[node2]
             THEN LET linked == [nxt EXCEPT ![tail] = node1] IN
                    MergeNodesLoop_Greater(linked[node1], node2, linked[tail],
                                           linked)
             ELSE LET linked == [nxt EXCEPT ![tail] = node2] IN
                    MergeNodesLoop_Greater(node1, linked[node2], linked[tail],
                                           linked)
      ELSE [nxt EXCEPT ![tail] = IF node1 # NULL THEN node1 ELSE node2]

\* the while loop of merge_sorted_lists_nodes and the assignment after it,
\* on two chains that share no node: the next pointers it leaves
RECURSIVE MergeNodesLoop(_, _, _, _)
MergeNodesLoop(node1, node2, tail, nxt) ==
    IF node1 # NULL /\ node2 # NULL
      THEN IF data[node1] <= data[node2]
             THEN LET linked == [nxt EXCEPT ![tail] = node1] IN
                    MergeNodesLoop(linked[node1], node2, linked[tail], linked)
             ELSE LET linked == [nxt EXCEPT ![tail] = node2] IN
                    MergeNodesLoop(node1, linked[node2], linked[tail], linked)
      ELSE [nxt EXCEPT ![tail] = IF node1 # NULL THEN node1 ELSE node2]

\* merge_sorted_lists_nodes(node1, node2): [head, next]
merge_sorted_lists_nodes(node1, node2, nxt) ==
    LET dummy == Len(nxt) + 1
        linked == MergeNodesLoop(node1, node2, dummy, Append(nxt, NULL))
    IN  [head |-> linked[dummy], next |-> SubSeq(linked, 1, Len(nxt))]

\* the inner function sort of merge_sort_linked_list: [head, next]
RECURSIVE sort(_, _)
sort(node, nxt) ==
    IF node = NULL \/ nxt[node] = NULL THEN [head |-> node, next |-> nxt]
    ELSE LET middle == get_middle(node, nxt) IN
      IF middle = NULL THEN [head |-> node, next |-> nxt]
      ELSE LET next_to_middle == nxt[middle]
               left_half == sort(node, [nxt EXCEPT ![middle] = NULL])
               right_half == sort(next_to_middle, left_half.next)
           IN  merge_sorted_lists_nodes(left_half.head, right_half.head,
                                        right_half.next)

\* the effect of merge_sort_linked_list on the list with head h:
\* [head, next, result], result being the list returned
MergeSortResult(l, h, nxt) ==
    IF h = NULL \/ nxt[h] = NULL
      THEN [head |-> h, next |-> nxt, result |-> l]
      ELSE LET r == sort(h, nxt) IN
             [head |-> r.head, next |-> r.next, result |-> l]

\* merge_sort_linked_list(linked_list); on a chain that does not end
\* get_middle runs for ever
merge_sort_linked_list(l) ==
    /\ Acyclic(head[l], next)
    /\ LET r == MergeSortResult(l, head[l], next) IN
         /\ next' = r.next
         /\ head' = [head EXCEPT ![l] = r.head]
         /\ call' = [op |-> "merge_sort_linked_list", list |-> l,
                     before |-> to_list(l), nodes |-> Chain(head[l], next),
                     result |-> r.result]
    /\ UNCHANGED data
    /\ UNCHANGED rest1

\* one empty LinkedList, as LinkedList() leaves it
InitList ==
    /\ data = <<>>
    /\ next = <<>>
    /\ head = <<NULL>>
    /\ call = [op |-> "none"]

\* two empty LinkedLists, the arguments of merge_sorted_lists to be
InitMerge ==
    /\ data = <<>>
    /\ next = <<>>
    /\ head = <<NULL, NULL>>
    /\ call = [op |-> "none"]

\* one list: filled at both ends, reversed and sorted
NextList ==
    \/ \E l \in Lists, d \in DataArgs : insert_at_beginning(l, d)
    \/ \E l \in Lists, d \in DataArgs : insert_at_end(l, d)
    \/ \E l \in Lists : reverse_linked_list(l)
    \/ \E l \in Lists : merge_sort_linked_list(l)

\* the lists that are merged: filled, and merged with each other, with
\* themselves and with the merged lists
NextMerge ==
    \/ \E l \in Lists, d \in DataArgs : insert_at_end(l, d)
    \/ \E l1 \in Lists, l2 \in Lists : merge_sorted_lists(l1, l2)

-----------------------------------------------------------------------------
(* The steps of task3.py *)

Init3 ==
    /\ vertices = 0
    /\ adjacency_list = <<>>
    /\ distances = <<>>
    /\ predecessors = <<>>
    /\ source = NONE
    /\ min_heap = <<>>
    /\ visited = {}
    /\ current_vertex = NONE
    /\ edge_index = 0
    /\ pushes = 0
    /\ relaxed = <<>>
    /\ pc = "start"
    /\ arg = NONE
    /\ raised = "none"
    /\ ret = [op |-> "none", kind |-> "unset"]

\* Graph alone: construction and every call of add_edge and
\* add_bidirectional_edge, accepted or rejected
NextGraph ==
    \/ \E n \in VertexCountArgs : GraphPostInit(n)
    \/ \E src \in VertexArgs, dst \in VertexArgs, weight \in WeightArgs :
         add_edge(src, dst, weight)
    \/ \E vertex1 \in VertexArgs, vertex2 \in VertexArgs, weight \in WeightArgs :
         add_bidirectional_edge(vertex1, vertex2, weight)

\* one run of find_shortest_paths on every graph the accepted calls build
NextRun ==
    \/ \E n \in VertexCountArgs : GraphPostInit(n)
    \/ \E src \in ValidVertexArgs, dst \in ValidVertexArgs,
          weight \in ValidWeightArgs :
         add_edge(src, dst, weight)
    \/ \E vertex1 \in ValidVertexArgs, vertex2 \in ValidVertexArgs,
          weight \in ValidWeightArgs :
         add_bidirectional_edge(vertex1, vertex2, weight)
    \/ \E src \in VertexArgs : find_shortest_paths(src)
    \/ PopVertex
    \/ RelaxEdge
    \/ EndFor
    \/ ReturnResult

\* the steps of the loops of find_shortest_paths: once called, the
\* function runs on until it returns
RunStep == PopVertex \/ RelaxEdge \/ EndFor \/ ReturnResult

\* Dijkstra on every graph the accepted calls build (a rejected call leaves
\* the graph as it was), and the queries on its result
Next3 ==
    \/ \E n \in VertexCountArgs : GraphPostInit(n)
    \/ \E src \in ValidVertexArgs, dst \in ValidVertexArgs,
          weight \in ValidWeightArgs :
         add_edge(src, dst, weight)
    \/ \E vertex1 \in ValidVertexArgs, vertex2 \in ValidVertexArgs,
          weight \in ValidWeightArgs :
         add_bidirectional_edge(vertex1, vertex2, weight)
    \/ \E src \in VertexArgs : find_shortest_paths(src)
    \/ PopVertex
    \/ RelaxEdge
    \/ EndFor
    \/ ReturnResult
    \/ \E destination \in VertexArgs : get_path(destination)
    \/ \E destination \in VertexArgs : get_distance(destination)


-----------------------------------------------------------------------------
(* task6.py: the choice of food within a budget *)

\* most items of the item table
MaxItems == 3

\* largest budget
MaxBudget == 5

\* the costs of the items: positive integers
CostArgs == {1, 2, 3}

\* the calories of the items
CaloriesArgs == {-1, 0, 3, 4}

\* the item tables: a dict keeps the order its keys were inserted in, so a
\* table is the sequence of its values and a name is a position in it
ItemTables ==
    UNION {[1 .. n -> [cost : CostArgs, calories : CaloriesArgs]] :
           n \in 0 .. MaxItems}

\* d.get(key, default)
DictGet(d, key, default) == IF key \in DOMAIN d THEN d[key] ELSE default

\* ratio(a) > ratio(b) for ratio = calories / cost with cost > 0
RatioGreater(a, b) == a.calories * b.cost > b.calories * a.cost

\* list.sort(key = ratio, reverse = True) is stable: the next name goes
\* before the first name of a smaller ratio
RECURSIVE InsertByRatio(_, _, _)
InsertByRatio(tbl, sorted, name) ==
    IF sorted = <<>> THEN <<name>>
    ELSE IF RatioGreater(tbl[name], tbl[Head(sorted)])
         THEN <<name>> \o sorted
         ELSE <<Head(sorted)>> \o InsertByRatio(tbl, Tail(sorted), name)

\* ratios of the first k names, sorted
RECURSIVE SortedRatios(_, _)
SortedRatios(tbl, k) ==
    IF k = 0 THEN <<>>
    ELSE InsertByRatio(tbl, SortedRatios(tbl, k - 1), k)

\* faulty variant: the quantity is rounded up
RECURSIVE GreedyLoop_RoundUp(_, _, _, _, _)
GreedyLoop_RoundUp(tbl, ratios, i, selected, remaining_budget) ==
    IF i > Len(ratios) THEN selected
    ELSE LET name == ratios[i]
             cost == tbl[name].cost
             quantity == (remaining_budget + cost - 1) \div cost
         IN  IF quantity > 0
             THEN GreedyLoop_RoundUp(tbl, ratios, i + 1,
                             (name :> quantity) @@ selected,
                             remaining_budget - quantity * cost)
             ELSE GreedyLoop_RoundUp(tbl, ratios, i + 1, selected,
                                     remaining_budget)

\* the for loop of greedy_algorithm from position i of ratios
RECURSIVE GreedyLoop(_, _, _, _, _)
GreedyLoop(tbl, ratios, i, selected, remaining_budget) ==
    IF i > Len(ratios) THEN selected
    ELSE LET name == ratios[i]
             cost == tbl[name].cost
             quantity == remaining_budget \div cost
         IN  IF quantity > 0
             THEN GreedyLoop(tbl, ratios, i + 1,
                             (name :> quantity) @@ selected,
                             remaining_budget - quantity * cost)
             ELSE GreedyLoop(tbl, ratios, i + 1, selected, remaining_budget)

GreedyValue(tbl, b) ==
    GreedyLoop(tbl, SortedRatios(tbl, Len(tbl)), 1, <<>>, b)

greedy_algorithm ==
    /\ greedy_result' = [kind |-> "dict",
                         ratios |-> SortedRatios(items, Len(items)),
                         value |-> GreedyValue(items, budget)]
    /\ UNCHANGED <<items, budget, dp_result, verdict>>
    /\ UNCHANGED rest6

\* faulty variant: an item that costs the whole of w is passed over
RECURSIVE DPItemLoop_StrictCost(_, _, _, _, _)
DPItemLoop_StrictCost(tbl, w, i, dp, choices) ==
    IF i > Len(tbl) THEN [dp |-> dp, choices |-> choices]
    ELSE LET cost == tbl[i].cost
             calories == tbl[i].calories
         IN  IF cost < w /\ dp[w - cost] + calories > dp[w]
             THEN DPItemLoop_StrictCost(tbl, w, i + 1,
                             [dp EXCEPT ![w] = dp[w - cost] + calories],
                             [choices EXCEPT ![w] =
                                 (i :> DictGet(choices[w - cost], i, 0) + 1)
                                 @@ choices[w - cost]])
             ELSE DPItemLoop_StrictCost(tbl, w, i + 1, dp, choices)

\* the inner for loop of dynamic_programming from item i, for one w
RECURSIVE DPItemLoop(_, _, _, _, _)
DPItemLoop(tbl, w, i, dp, choices) ==
    IF i > Len(tbl) THEN [dp |-> dp, choices |-> choices]
    ELSE LET cost == tbl[i].cost
             calories == tbl[i].calories
         IN  IF cost <= w /\ dp[w - cost] + calories > dp[w]
             THEN DPItemLoop(tbl, w, i + 1,
                             [dp EXCEPT ![w] = dp[w - cost] + calories],
                             [choices EXCEPT ![w] =
                                 (i :> DictGet(choices[w - cost], i, 0) + 1)
                                 @@ choices[w - cost]])
             ELSE DPItemLoop(tbl, w, i + 1, dp, choices)

\* faulty variant: range(1, budget) instead of range(1, budget + 1)
RECURSIVE DPBudgetLoop_SkipLast(_, _, _, _, _)
DPBudgetLoop_SkipLast(tbl, b, w, dp, choices) ==
    IF w >= b THEN [dp |-> dp, choices |-> choices]
    ELSE LET filled == DPItemLoop(tbl, w, 1, dp, choices)
         IN  DPBudgetLoop_SkipLast(tbl, b, w + 1, filled.dp, filled.choices)

\* the outer for loop of dynamic_programming from w
RECURSIVE DPBudgetLoop(_, _, _, _, _)
DPBudgetLoop(tbl, b, w, dp, choices) ==
    IF w > b THEN [dp |-> dp, choices |-> choices]
    ELSE LET filled == DPItemLoop(tbl, w, 1, dp, choices)
         IN  DPBudgetLoop(tbl, b, w + 1, filled.dp, filled.choices)

DPValue(tbl, b) ==
    DPBudgetLoop(tbl, b, 1, [w \in 0 .. b |-> 0],
                 [w \in 0 .. b |-> <<>>]).choices[b]

dynamic_programming ==
    /\ dp_result' = [kind |-> "dict", value |-> DPValue(items, budget)]
    /\ UNCHANGED <<items, budget, greedy_result, verdict>>
    /\ UNCHANGED rest6

\* the sum of f over the keys in S
RECURSIVE SumOver(_, _)
SumOver(S, f) ==
    IF S = {} THEN 0
    ELSE LET name == CHOOSE x \in S : TRUE
         IN  f[name] + SumOver(S \ {name}, f)

calculate_totals(tbl, selected) ==
    [total_cost |->
        SumOver(DOMAIN selected,
                [name \in DOMAIN selected |-> tbl[name].cost * selected[name]]),
     total_calories |->
        SumOver(DOMAIN selected,
                [name \in DOMAIN selected |->
                    tbl[name].calories * selected[name]])]

\* the if / elif / else of main's comparison
CompareBranch(dp_calories, greedy_calories) ==
    IF dp_calories > greedy_calories THEN "dp is better"
    ELSE IF greedy_calories > dp_calories THEN "greedy is better"
    ELSE "same"

\* the comparison of one round of main, after both algorithms ran
Compare ==
    /\ greedy_result.kind = "dict"
    /\ dp_result.kind = "dict"
    /\ verdict' =
         CompareBranch(calculate_totals(items, dp_result.value).total_calories,
                       calculate_totals(items, greedy_result.value).total_calories)
    /\ UNCHANGED <<items, budget, greedy_result, dp_result>>
    /\ UNCHANGED rest6

\* no round of main yet
Init6 ==
    /\ items = <<>>
    /\ budget = 0
    /\ greedy_result = [kind |-> "unset"]
    /\ dp_result = [kind |-> "unset"]
    /\ verdict = "none"

\* a round of main on any item table and any budget
InitFood ==
    /\ items \in ItemTables
    /\ budget \in 0 .. MaxBudget
    /\ greedy_result = [kind |-> "unset"]
    /\ dp_result = [kind |-> "unset"]
    /\ verdict = "none"

NextFood ==
    \/ greedy_algorithm
    \/ dynamic_programming
    \/ Compare

-----------------------------------------------------------------------------
(* task5.py: the traversals of a binary tree.  Node i of the tree is the   *)
(* i-th Node created; left[i] and right[i] are its children, or NULL.      *)

\* most nodes of the tree
MaxTreeNodes == 6

TreeNodes == 1 .. Len(left)

\* root = Node(key)
NewRoot ==
    /\ root = NULL
    /\ root' = Len(left) + 1
    /\ left' = Append(left, NULL)
    /\ right' = Append(right, NULL)
    /\ UNCHANGED traversal
    /\ UNCHANGED rest5

\* node.left = Node(key), as create_sample_tree and create_larger_tree do
\* on a node that has no left child yet
SetLeft(node) ==
    /\ Len(left) < MaxTreeNodes
    /\ left[node] = NULL
    /\ left' = Append([left EXCEPT ![node] = Len(left) + 1], NULL)
    /\ right' = Append(right, NULL)
    /\ UNCHANGED <<root, traversal>>
    /\ UNCHANGED rest5

\* node.right = Node(key)
SetRight(node) ==
    /\ Len(left) < MaxTreeNodes
    /\ right[node] = NULL
    /\ right' = Append([right EXCEPT ![node] = Len(right) + 1], NULL)
    /\ left' = Append(left, NULL)
    /\ UNCHANGED <<root, traversal>>
    /\ UNCHANGED rest5

\* faulty variant: the left child is pushed before the right child
RECURSIVE DfsLoop_LeftFirst(_, _)
DfsLoop_LeftFirst(stack, visited_nodes) ==
    IF stack = <<>> THEN visited_nodes
    ELSE LET node == stack[Len(stack)]
             popped == SubSeq(stack, 1, Len(stack) - 1)
             with_left == IF left[node] # NULL
                          THEN Append(popped, left[node]) ELSE popped
             with_right == IF right[node] # NULL
                           THEN Append(with_left, right[node]) ELSE with_left
         IN  DfsLoop_LeftFirst(with_right, Append(visited_nodes, node))

\* the while loop of dfs_traversal: stack.pop() takes the last element
RECURSIVE DfsLoop(_, _)
DfsLoop(stack, visited_nodes) ==
    IF stack = <<>> THEN visited_nodes
    ELSE LET node == stack[Len(stack)]
             popped == SubSeq(stack, 1, Len(stack) - 1)
             with_right == IF right[node] # NULL
                           THEN Append(popped, right[node]) ELSE popped
             with_left == IF left[node] # NULL
                          THEN Append(with_right, left[node]) ELSE with_right
         IN  DfsLoop(with_left, Append(visited_nodes, node))

DfsValue(r) == IF r = NULL THEN <<>> ELSE DfsLoop(<<r>>, <<>>)

dfs_traversal(r) ==
    /\ traversal' = [op |-> "dfs_traversal", root |-> r, left |-> left,
                      right |-> right, value |-> DfsValue(r)]
    /\ UNCHANGED <<left, right, root>>
    /\ UNCHANGED rest5

\* faulty variant: the queue is popped at the right end
RECURSIVE BfsLoop_PopRight(_, _)
BfsLoop_PopRight(queue, visited_nodes) ==
    IF queue = <<>> THEN visited_nodes
    ELSE LET node == queue[Len(queue)]
             popped == SubSeq(queue, 1, Len(queue) - 1)
             with_left == IF left[node] # NULL
                          THEN Append(popped, left[node]) ELSE popped
             with_right == IF right[node] # NULL
                           THEN Append(with_left, right[node]) ELSE with_left
         IN  BfsLoop_PopRight(with_right, Append(visited_nodes, node))

\* the while loop of bfs_traversal: queue.popleft() takes the first element
RECURSIVE BfsLoop(_, _)
BfsLoop(queue, visited_nodes) ==
    IF queue = <<>> THEN visited_nodes
    ELSE LET node == Head(queue)
             popped == Tail(queue)
             with_left == IF left[node] # NULL
                          THEN Append(popped, left[node]) ELSE popped
             with_right == IF right[node] # NULL
                           THEN Append(with_left, right[node]) ELSE with_left
         IN  BfsLoop(with_right, Append(visited_nodes, node))

BfsValue(r) == IF r = NULL THEN <<>> ELSE BfsLoop(<<r>>, <<>>)

bfs_traversal(r) ==
    /\ traversal' = [op |-> "bfs_traversal", root |-> r, left |-> left,
                      right |-> right, value |-> BfsValue(r)]
    /\ UNCHANGED <<left, right, root>>
    /\ UNCHANGED rest5

\* no Node yet
Init5 ==
    /\ left = <<>>
    /\ right = <<>>
    /\ root = NULL
    /\ traversal = [op |-> "none"]

\* a tree is built node by node; it is traversed whole (from its root, or
\* from None while there is no root) and from each of its nodes
NextTree ==
    \/ NewRoot
    \/ \E node \in TreeNodes : SetLeft(node)
    \/ \E node \in TreeNodes : SetRight(node)
    \/ \E r \in {root} \cup TreeNodes : dfs_traversal(r)
    \/ \E r \in {root} \cup TreeNodes : bfs_traversal(r)

-----------------------------------------------------------------------------
(* task4.py: the tree of a heap array.  nodes[i] is the i-th Node created: *)
(* its val, left and right, and the index heap_to_tree created it for.     *)

\* longest heap array
MaxHeapLen == 4

\* most Node objects created in a run
MaxHeapNodes == 6

\* the values of the heap array
HeapValueArgs == {0, 1}

HeapArrays == UNION {[1 .. n -> HeapValueArgs] : n \in 0 .. MaxHeapLen}

\* faulty variant: the children are taken from 2 * index and 2 * index + 1
RECURSIVE HeapToTree_ChildrenOneLess(_, _, _)
HeapToTree_ChildrenOneLess(heap, index, store) ==
    IF index >= Len(heap) THEN [node |-> NULL, nodes |-> store]
    ELSE LET node == Len(store) + 1
             created == Append(store, [val |-> heap[index + 1], left |-> NULL,
                                       right |-> NULL, index |-> index])
             left_child_index == IF index = 0 THEN 1 ELSE 2 * index
             right_child_index == IF index = 0 THEN 2 ELSE 2 * index + 1
             built_left == HeapToTree_ChildrenOneLess(heap, left_child_index,
                                                      created)
             with_left == [built_left.nodes EXCEPT
                              ![node].left = built_left.node]
             built_right == HeapToTree_ChildrenOneLess(heap, right_child_index,
                                                       with_left)
         IN  [node |-> node,
              nodes |-> [built_right.nodes EXCEPT
                            ![node].right = built_right.node]]

\* heap_to_tree(heap, index) with the Nodes created so far: the Node it
\* returns (NULL for None) and the Nodes afterwards.  heap[index] of the
\* 0-based list is element index + 1 of the sequence.
RECURSIVE HeapToTree(_, _, _)
HeapToTree(heap, index, store) ==
    IF index >= Len(heap) THEN [node |-> NULL, nodes |-> store]
    ELSE LET node == Len(store) + 1
             created == Append(store, [val |-> heap[index + 1], left |-> NULL,
                                       right |-> NULL, index |-> index])
             left_child_index == 2 * index + 1
             right_child_index == 2 * index + 2
             built_left == HeapToTree(heap, left_child_index, created)
             with_left == [built_left.nodes EXCEPT
                              ![node].left = built_left.node]
             built_right == HeapToTree(heap, right_child_index, with_left)
         IN  [node |-> node,
              nodes |-> [built_right.nodes EXCEPT
                            ![node].right = built_right.node]]

heap_to_tree(index) ==
    /\ Len(nodes) + Len(heap_array) <= MaxHeapNodes
    /\ LET built == HeapToTree(heap_array, index, nodes)
       IN  /\ nodes' = built.nodes
           /\ heap_call' = [op |-> "heap_to_tree", index |-> index,
                            nodes_before |-> Len(nodes),
                            drawn_before |-> Len(drawn),
                            node |-> built.node]
    /\ UNCHANGED <<heap_array, drawn>>
    /\ UNCHANGED rest4

visualize_heap ==
    /\ Len(nodes) + Len(heap_array) <= MaxHeapNodes
    /\ IF heap_array = <<>>
         THEN /\ heap_call' = [op |-> "visualize_heap", index |-> 0,
                               nodes_before |-> Len(nodes),
                               drawn_before |-> Len(drawn),
                               node |-> NULL]
              /\ UNCHANGED <<nodes, drawn>>
         ELSE LET built == HeapToTree(heap_array, 0, nodes)
              IN  /\ nodes' = built.nodes
                  /\ drawn' = IF built.node # NULL
                              THEN Append(drawn, built.node) ELSE drawn
                  /\ heap_call' = [op |-> "visualize_heap", index |-> 0,
                                   nodes_before |-> Len(nodes),
                                   drawn_before |-> Len(drawn),
                                   node |-> built.node]
    /\ UNCHANGED heap_array
    /\ UNCHANGED rest4

\* no heap array
Init4 ==
    /\ heap_array = <<>>
    /\ nodes = <<>>
    /\ drawn = <<>>
    /\ heap_call = [op |-> "none"]

\* any heap array, no Node created and nothing drawn yet
InitHeap ==
    /\ heap_array \in HeapArrays
    /\ nodes = <<>>
    /\ drawn = <<>>
    /\ heap_call = [op |-> "none"]

\* the array is drawn, and heap_to_tree is called on it from every index,
\* the first index past its end included
NextHeap ==
    \/ \E index \in 0 .. Len(heap_array) : heap_to_tree(index)
    \/ visualize_heap

-----------------------------------------------------------------------------
(* The specifications: one per script, and one per part of a script whose   *)
(* calls do not meet                                                        *)

Init == Init3 /\ InitList /\ Init6 /\ Init5 /\ Init4

Next == Next3

\* task3.py: the graph, Dijkstra and the queries on the result
Spec == Init /\ [][Next]_vars

\* task3.py: the graph and a run of Dijkstra that is not held up
SpecRun == Init /\ [][NextRun]_vars /\ WF_vars(RunStep)

\* task3.py: the graph alone
SpecGraph == Init /\ [][NextGraph]_vars

\* task1.py: one linked list
SpecList == Init /\ [][NextList]_vars

InitOfMerge == Init3 /\ InitMerge /\ Init6 /\ Init5 /\ Init4

\* task1.py: merge_sorted_lists
SpecMerge == InitOfMerge /\ [][NextMerge]_vars

InitOfFood == Init3 /\ InitList /\ InitFood /\ Init5 /\ Init4

\* task6.py: both algorithms and the comparison
SpecFood == InitOfFood /\ [][NextFood]_vars

\* task5.py: a tree and its traversals
SpecTree == Init /\ [][NextTree]_vars

InitOfHeap == Init3 /\ InitList /\ Init6 /\ Init5 /\ InitHeap

\* task4.py: the tree of a heap array
SpecHeap == InitOfHeap /\ [][NextHeap]_vars

-----------------------------------------------------------------------------
(* What the claims about task3.py speak of *)

Vertices == 0 .. (vertices - 1)

\* the weights of the edges u -> w of the graph
EdgeWeights(u, w) ==
    {adjacency_list[u][i].weight :
        i \in {j \in 1 .. Len(adjacency_list[u]) :
                  adjacency_list[u][j].destination = w}}

HasEdge(u, w) == EdgeWeights(u, w) # {}

\* the weight of the lightest edge u -> w
LightestEdge(u, w) ==
    CHOOSE x \in EdgeWeights(u, w) : \A y \in EdgeWeights(u, w) : x <= y

\* the least of a set of distances, INF standing for infinity
MinDistance(S) ==
    IF S \ {INF} = {} THEN INF
    ELSE CHOOSE x \in S \ {INF} : \A y \in S \ {INF} : x <= y

\* the minimum total weight over the directed paths from u to v of at most
\* k edges, INF when there is none
RECURSIVE MinPathWeight(_, _, _)
MinPathWeight(u, v, k) ==
    MinDistance(
        (IF u = v THEN {0} ELSE {})
        \cup
        (IF k = 0 THEN {}
         ELSE {LET rest == MinPathWeight(adjacency_list[u][i].destination,
                                         v, k - 1)
               IN  IF rest = INF THEN INF
                   ELSE adjacency_list[u][i].weight + rest :
                  i \in 1 .. Len(adjacency_list[u])}))

\* the minimum total weight over all directed paths from u to v: with
\* weights >= 0 a lightest path need not repeat a vertex, so paths of up to
\* vertices edges are more than enough
ShortestDistance(u, v) == MinPathWeight(u, v, vertices)

\* the summed weight of a vertex list, the lightest edge taken between
\* each consecutive pair
RECURSIVE PathWeight(_)
PathWeight(path) ==
    IF Len(path) <= 1 THEN 0
    ELSE LightestEdge(path[1], path[2]) + PathWeight(Tail(path))

\* C1: when find_shortest_paths returns, distances[v] is, for every vertex
\* v, the minimum total weight over all directed paths from source to v,
\* and infinity exactly when there is no such path; distances[source] = 0
C1_ShortestDistances ==
    pc = "done" =>
        /\ distances[source] = 0
        /\ \A v \in Vertices : distances[v] = ShortestDistance(source, v)
        /\ \A v \in Vertices :
             distances[v] = INF <=> ShortestDistance(source, v) = INF

\* a finished run in which a vertex is reached more cheaply through
\* another vertex than by its direct edge from the source
C1_Witness ==
    /\ pc = "done"
    /\ \E v \in Vertices \ {source} :
         /\ HasEdge(source, v)
         /\ distances[v] # INF
         /\ distances[v] < LightestEdge(source, v)
         /\ predecessors[v] # source

\* C2: once a vertex is in visited, no later step of the loop changes its
\* distance or its predecessor, so the value it has when it is marked
\* visited is the value returned
VisitedKept ==
    pc \in {"loop", "for"} =>
        \A v \in visited :
            /\ distances'[v] = distances[v]
            /\ predecessors'[v] = predecessors[v]

C2_VisitedFinal == [][VisitedKept]_vars

\* the for loop stands at an edge into another, already visited vertex
\* that the edge reaches at exactly that vertex's distance
C2_Witness ==
    /\ pc = "for"
    /\ edge_index <= Len(get_neighbors(current_vertex))
    /\ LET edge == get_neighbors(current_vertex)[edge_index] IN
         /\ edge.destination \in visited \ {current_vertex}
         /\ distances[current_vertex] + edge.weight = distances[edge.destination]

\* C3: for a destination whose distance is finite, get_path returns a
\* vertex list from source to destination along edges of the graph whose
\* summed weight is distances[destination]; get_path(source) is [source]
C3_PathOfResult ==
    (pc = "done" /\ ret.op = "get_path" /\ arg \in DOMAIN distances
        /\ distances[arg] # INF) =>
        /\ ret.kind = "list"
        /\ Len(ret.value) >= 1
        /\ ret.value[1] = source
        /\ ret.value[Len(ret.value)] = arg
        /\ \A i \in 1 .. (Len(ret.value) - 1) :
             HasEdge(ret.value[i], ret.value[i + 1])
        /\ PathWeight(ret.value) = distances[arg]
        /\ (arg = source => ret.value = <<source>>)

\* get_path has returned a path of three vertices
C3_Witness ==
    /\ pc = "done"
    /\ ret.op = "get_path"
    /\ ret.kind = "list"
    /\ Len(ret.value) = 3

\* a destination the result has no finite distance for
NoFiniteDistance(destination) ==
    IF destination \in Vertices THEN distances[destination] = INF ELSE TRUE

\* C4: for a destination that is unreachable or is no vertex of the graph,
\* get_path returns None and get_distance returns infinity; no query
\* raises and none changes the result
QueryOfUnreachable ==
    (pc = "done" /\ pc' = "done") =>
        /\ UNCHANGED <<distances, predecessors, source>>
        /\ raised' = "none"
        /\ (NoFiniteDistance(arg') /\ ret'.op = "get_path") =>
              ret'.kind = "None"
        /\ (NoFiniteDistance(arg') /\ ret'.op = "get_distance") =>
              (ret'.kind = "float" /\ ret'.value = INF)

C4_QueriesOfUnreachable == [][QueryOfUnreachable]_vars

\* get_distance has been asked for a destination outside the graph, on a
\* result that leaves a vertex of the graph unreached
C4_Witness ==
    /\ pc = "done"
    /\ ret.op = "get_distance"
    /\ arg \notin Vertices
    /\ \E v \in Vertices : distances[v] = INF

\* C5: after any sequence of add_edge and add_bidirectional_edge calls,
\* accepted or rejected, adjacency_list has exactly the keys 0..vertices-1
\* and every stored edge has a weight >= 0 and a destination in that range
C5_GraphWellFormed ==
    pc = "graph" =>
        /\ DOMAIN adjacency_list = Vertices
        /\ \A u \in DOMAIN adjacency_list :
             \A i \in 1 .. Len(adjacency_list[u]) :
                /\ adjacency_list[u][i].weight >= 0
                /\ adjacency_list[u][i].destination \in Vertices

\* a call has been rejected on a graph that holds edges in two lists
C5_Witness ==
    /\ pc = "graph"
    /\ raised = "ValueError"
    /\ \E u \in Vertices, w \in Vertices :
         u # w /\ adjacency_list[u] # <<>> /\ adjacency_list[w] # <<>>

\* the arguments add_edge must reject
BadEdgeArgs(src, dst, weight) ==
    src \notin Vertices \/ dst \notin Vertices \/ weight < 0

\* C6: add_edge raises ValueError when source or destination is outside
\* [0, vertices-1] or the weight is negative, and leaves adjacency_list as
\* it was
\* (a step that ends rejected with the list as it was satisfies this for
\* every call, and is recognised before the calls are gone through)
BadEdgeRejected ==
    \/ (raised' = "ValueError" /\ adjacency_list' = adjacency_list)
    \/ \A src \in VertexArgs, dst \in VertexArgs, weight \in WeightArgs :
          ~(BadEdgeArgs(src, dst, weight) /\ add_edge(src, dst, weight))

C6_AddEdgeRejects == [][BadEdgeRejected]_vars

\* a call has been rejected on a graph that holds an edge
C6_Witness ==
    /\ pc = "graph"
    /\ raised = "ValueError"
    /\ EdgeCount(adjacency_list) >= 1

\* C7: find_shortest_paths raises ValueError, with nothing computed, when
\* source is outside [0, vertices-1]; for a source inside it returns a
\* result whose distances and predecessors have exactly the keys
\* 0..vertices-1
C7_SourceValidated ==
    /\ pc = "raised" =>
          /\ raised = "ValueError"
          /\ arg \notin Vertices
          /\ distances = <<>> /\ predecessors = <<>>
          /\ min_heap = <<>> /\ visited = {}
    /\ pc \in {"loop", "for", "done"} => source \in Vertices
    /\ pc = "done" =>
          /\ DOMAIN distances = Vertices
          /\ DOMAIN predecessors = Vertices

\* find_shortest_paths has rejected a source on a graph that holds edges
C7_Witness ==
    /\ pc = "raised"
    /\ EdgeCount(adjacency_list) >= 2

-----------------------------------------------------------------------------
(* What the claims about task1.py speak of *)

IsSorted(seq) == \A i \in 1 .. (Len(seq) - 1) : seq[i] <= seq[i + 1]

\* the multiset of the values of a sequence
BagOf(seq) ==
    [v \in {seq[i] : i \in 1 .. Len(seq)} |->
        Cardinality({i \in 1 .. Len(seq) : seq[i] = v})]

\* a sequence back to front
BackToFront(seq) == [i \in 1 .. Len(seq) |-> seq[Len(seq) + 1 - i]]

\* C8: merge_sort_linked_list returns the LinkedList it was given, whose
\* to_list() is then in non-decreasing order and a permutation of what it
\* was; an empty or one-element list is left as it was
C8_MergeSortSorts ==
    call.op = "merge_sort_linked_list" =>
        /\ call.result = call.list
        /\ Acyclic(head[call.list], next)
        /\ IsSorted(to_list(call.list))
        /\ Len(to_list(call.list)) = Len(call.before)
        /\ BagOf(to_list(call.list)) = BagOf(call.before)
        /\ Len(call.before) <= 1 =>
              /\ to_list(call.list) = call.before
              /\ Chain(head[call.list], next) = call.nodes

\* a list of four nodes that was not in order, and held a value twice, has
\* been sorted
C8_Witness ==
    /\ call.op = "merge_sort_linked_list"
    /\ Len(call.before) = 4
    /\ ~IsSorted(call.before)
    /\ \E i \in 1 .. 4, j \in 1 .. 4 : i # j /\ call.before[i] = call.before[j]

\* C9: reverse_linked_list relinks the nodes of the list, so that to_list()
\* is the reverse of what it was, and returns the LinkedList it was given
C9_ReverseReverses ==
    call.op = "reverse_linked_list" =>
        /\ call.result = call.list
        /\ Acyclic(head[call.list], next)
        /\ to_list(call.list) = BackToFront(call.before)
        /\ Chain(head[call.list], next) = BackToFront(call.nodes)

\* a list of at least three nodes whose ends differ has been reversed
C9_Witness ==
    /\ call.op = "reverse_linked_list"
    /\ Len(call.before) >= 3
    /\ call.before[1] # call.before[Len(call.before)]

\* what C10 says of the list merge_sorted_lists returns
MergedAsClaimed ==
    /\ Acyclic(head[call.result], next)
    /\ IsSorted(to_list(call.result))
    /\ Len(to_list(call.result)) = Len(call.before1) + Len(call.before2)
    /\ BagOf(to_list(call.result)) = BagOf(call.before1 \o call.before2)

\* C10 as stated: for any two sorted lists, merge_sorted_lists returns a
\* sorted list whose values are those of the two lists together
C10_AnyTwoLists ==
    (call.op = "merge_sorted_lists"
        /\ IsSorted(call.before1) /\ IsSorted(call.before2)) =>
        MergedAsClaimed

\* C10, amended: for any two sorted lists that have no node in common (so
\* that list1 is not list2 unless it is empty), merge_sorted_lists returns
\* a sorted list whose values are those of the two lists together
C10_MergeOfDisjointLists ==
    (call.op = "merge_sorted_lists"
        /\ IsSorted(call.before1) /\ IsSorted(call.before2)
        /\ ~call.shared) =>
        MergedAsClaimed

\* two sorted lists with no node in common have been merged, the one
\* value of the second list falling between two values of the first
C10_Witness ==
    /\ call.op = "merge_sorted_lists"
    /\ ~call.shared
    /\ Len(call.before1) >= 2
    /\ Len(call.before2) >= 1
    /\ IsSorted(call.before1)
    /\ call.before1[1] < call.before2[1]
    /\ call.before2[1] < call.before1[2]

-----------------------------------------------------------------------------
(* What the claims about task6.py speak of *)

Names == DOMAIN items

\* a selection: item -> quantity, every quantity at least 1
IsSelection(selected) ==
    /\ DOMAIN selected \subseteq Names
    /\ \A name \in DOMAIN selected : selected[name] \in Nat \ {0}

\* total cost and total calories of a selection
CostOf(selected) ==
    SumOver(DOMAIN selected,
            [name \in DOMAIN selected |-> selected[name] * items[name].cost])

CaloriesOf(selected) ==
    SumOver(DOMAIN selected,
            [name \in DOMAIN selected |->
                selected[name] * items[name].calories])

Greatest(S) == CHOOSE m \in S : \A x \in S : x <= m

\* the most calories of a multiset of the first k items that costs at
\* most b: every quantity of item k that fits, with the best of the rest
RECURSIVE MaxCalories(_, _)
MaxCalories(k, b) ==
    IF k = 0 THEN 0
    ELSE Greatest({q * items[k].calories
                       + MaxCalories(k - 1, b - q * items[k].cost) :
                   q \in {n \in 0 .. b : n * items[k].cost <= b}})

\* C11: with positive integer costs and non-negative calories,
\* dynamic_programming returns a selection (item -> quantity) that costs at
\* most budget and whose calories are the most any multiset of items
\* within the budget has.
C11_DPIsOptimal ==
    (/\ dp_result.kind = "dict"
     /\ \A name \in Names : items[name].cost > 0 /\ items[name].calories >= 0)
    => /\ IsSelection(dp_result.value)
       /\ CostOf(dp_result.value) <= budget
       /\ CaloriesOf(dp_result.value) = MaxCalories(Len(items), budget)

\* dynamic_programming chose two different items, one of them twice, on a
\* table without negative calories
C11_Witness ==
    /\ dp_result.kind = "dict"
    /\ \A name \in Names : items[name].calories >= 0
    /\ Cardinality(DOMAIN dp_result.value) >= 2
    /\ \E name \in DOMAIN dp_result.value : dp_result.value[name] >= 2

\* what is left of the budget when position i of ratios is considered
RECURSIVE RemainingAt(_, _, _)
RemainingAt(ratios, selected, i) ==
    IF i = 1 THEN budget
    ELSE RemainingAt(ratios, selected, i - 1)
         - DictGet(selected, ratios[i - 1], 0) * items[ratios[i - 1]].cost

\* C12: greedy_algorithm considers every item once, in non-increasing
\* order of calories / cost; of each it buys the largest quantity the
\* remaining budget allows, leaving the item out when that is 0; the
\* selection never costs more than budget.
C12_GreedyByRatio ==
    greedy_result.kind = "dict" =>
        LET ratios == greedy_result.ratios
            selected == greedy_result.value
        IN  /\ Len(ratios) = Len(items)
            /\ {ratios[i] : i \in 1 .. Len(ratios)} = Names
            /\ \A i \in 1 .. (Len(ratios) - 1) :
                 items[ratios[i]].calories * items[ratios[i + 1]].cost
                 >= items[ratios[i + 1]].calories * items[ratios[i]].cost
            /\ IsSelection(selected)
            /\ \A i \in 1 .. Len(ratios) :
                 LET cost == items[ratios[i]].cost
                     quantity == DictGet(selected, ratios[i], 0)
                     remaining == RemainingAt(ratios, selected, i)
                 IN  /\ quantity * cost <= remaining
                     /\ remaining < (quantity + 1) * cost
            /\ CostOf(selected) <= budget

\* greedy_algorithm bought two of the three items, one of them twice, and
\* the order of the ratios is not the order of the table
C12_Witness ==
    /\ greedy_result.kind = "dict"
    /\ Len(items) = 3
    /\ Cardinality(DOMAIN greedy_result.value) = 2
    /\ \E name \in DOMAIN greedy_result.value : greedy_result.value[name] = 2
    /\ greedy_result.ratios[1] # 1

\* C20: the calories of dynamic_programming's selection are at least
\* those of greedy_algorithm's selection for the same table and budget,
\* and main's comparison never takes the branch "greedy is better".
C20_DPAtLeastGreedy ==
    /\ (greedy_result.kind = "dict" /\ dp_result.kind = "dict")
       => CaloriesOf(dp_result.value) >= CaloriesOf(greedy_result.value)
    /\ verdict # "greedy is better"

\* main compared the two and dynamic programming was better
C20_Witness ==
    /\ verdict = "dp is better"
    /\ CaloriesOf(dp_result.value) > CaloriesOf(greedy_result.value)
    /\ CaloriesOf(greedy_result.value) > 0

-----------------------------------------------------------------------------
(* What the claims about task5.py speak of: the tree of the last traversal *)

\* the nodes of the subtree of n (none for n = NULL)
RECURSIVE Subtree(_)
Subtree(n) ==
    IF n = NULL THEN {}
    ELSE {n} \cup Subtree(traversal.left[n]) \cup Subtree(traversal.right[n])

\* where node n is in the returned list
Position(n) ==
    CHOOSE i \in 1 .. Len(traversal.value) : traversal.value[i] = n

\* the returned list holds every node of the tree, each once
EveryNodeOnce ==
    /\ {traversal.value[i] : i \in 1 .. Len(traversal.value)}
         = Subtree(traversal.root)
    /\ Len(traversal.value) = Cardinality(Subtree(traversal.root))

\* the number of edges from the root of the traversal down to node n
RECURSIVE DepthBelow(_, _)
DepthBelow(top, n) ==
    IF top = n THEN 0
    ELSE IF n \in Subtree(traversal.left[top])
         THEN 1 + DepthBelow(traversal.left[top], n)
         ELSE 1 + DepthBelow(traversal.right[top], n)

Depth(n) == DepthBelow(traversal.root, n)

\* a is to the left of b: below some node, a is in the left subtree and b
\* in the right subtree
LeftOf(a, b) ==
    \E n \in Subtree(traversal.root) :
        /\ a \in Subtree(traversal.left[n])
        /\ b \in Subtree(traversal.right[n])

\* C13: dfs_traversal returns every node of the tree exactly once, a node
\* before all nodes of its subtrees and the whole left subtree of a node
\* before any node of its right subtree; for root = None it returns [].
C13_DfsPreOrder ==
    traversal.op = "dfs_traversal" =>
        /\ EveryNodeOnce
        /\ \A n \in Subtree(traversal.root) :
             \A m \in Subtree(n) \ {n} : Position(n) < Position(m)
        /\ \A a, b \in Subtree(traversal.root) :
             LeftOf(a, b) => Position(a) < Position(b)
        /\ traversal.root = NULL => traversal.value = <<>>

\* dfs_traversal went down a left subtree of two levels before it visited
\* the right child
C13_Witness ==
    /\ traversal.op = "dfs_traversal"
    /\ Len(traversal.value) >= 5
    /\ \E n \in Subtree(traversal.root) :
         /\ traversal.right[n] # NULL
         /\ traversal.left[n] # NULL
         /\ Cardinality(Subtree(traversal.left[n])) >= 3

\* C14: bfs_traversal returns every node of the tree exactly once, in
\* non-decreasing depth and, within one depth, from left to right; for
\* root = None it returns [].
C14_BfsLevelOrder ==
    traversal.op = "bfs_traversal" =>
        /\ EveryNodeOnce
        /\ \A a, b \in Subtree(traversal.root) :
             /\ Depth(a) < Depth(b) => Position(a) < Position(b)
             /\ (Depth(a) = Depth(b) /\ LeftOf(a, b))
                => Position(a) < Position(b)
        /\ traversal.root = NULL => traversal.value = <<>>

\* bfs_traversal visited a tree of three levels with two nodes on the
\* lowest level that have different parents
C14_Witness ==
    /\ traversal.op = "bfs_traversal"
    /\ \E a, b \in Subtree(traversal.root) :
         /\ Depth(a) = 2
         /\ Depth(b) = 2
         /\ LeftOf(a, b)
         /\ \A n \in Subtree(traversal.root) :
              ~(a \in {traversal.left[n], traversal.right[n]}
                /\ b \in {traversal.left[n], traversal.right[n]})

-----------------------------------------------------------------------------
(* What the claims about task4.py speak of *)

\* the Nodes the last call created
Created == (heap_call.nodes_before + 1) .. Len(nodes)

\* the Nodes the last call created for index i
NodesFor(i) == {n \in Created : nodes[n].index = i}

\* the child the Node for index i has to have at child_index: the Node
\* created for child_index, None when child_index is past the array
IsChildFor(child, child_index) ==
    IF child_index >= Len(heap_array) THEN child = NULL
    ELSE child # NULL /\ NodesFor(child_index) = {child}

\* C15: for a non-empty array, heap_to_tree(heap) builds exactly len(heap)
\* nodes, one for each index i, with val = heap[i], with the node for
\* 2i+1 as left child and the node for 2i+2 as right child, a child being
\* None exactly when its index is >= len(heap), and returns the node for
\* index 0; visualize_heap on an empty array builds and draws nothing.
C15_HeapToTree ==
    /\ (/\ heap_call.op \in {"heap_to_tree", "visualize_heap"}
        /\ heap_call.index = 0
        /\ heap_array # <<>>)
       => /\ Cardinality(Created) = Len(heap_array)
          /\ NodesFor(0) = {heap_call.node}
          /\ \A i \in 0 .. (Len(heap_array) - 1) :
               /\ Cardinality(NodesFor(i)) = 1
               /\ \A n \in NodesFor(i) :
                    /\ nodes[n].val = heap_array[i + 1]
                    /\ IsChildFor(nodes[n].left, 2 * i + 1)
                    /\ IsChildFor(nodes[n].right, 2 * i + 2)
    /\ (heap_call.op = "visualize_heap" /\ heap_array = <<>>)
       => /\ Created = {}
          /\ Len(drawn) = heap_call.drawn_before

\* heap_to_tree built the tree of an array of four elements that are not
\* all equal: a node with two children, one with one child, two leaves
C15_Witness ==
    /\ heap_call.op = "heap_to_tree"
    /\ heap_call.index = 0
    /\ Len(heap_array) = 4
    /\ Cardinality({heap_array[i] : i \in 1 .. 4}) = 2
    /\ nodes[heap_call.node].left # NULL
    /\ nodes[nodes[heap_call.node].left].left # NULL
    /\ nodes[nodes[heap_call.node].left].right = NULL

-----------------------------------------------------------------------------
(* What the claims about the loops of find_shortest_paths speak of *)

\* the run is between its initialisation and its return, or has returned
Running == pc \in {"loop", "for", "done"}

\* a step that pops the entry of a vertex that is already visited changes
\* nothing but the heap, which loses that entry, and goes back to the
\* while test
StaleEntryDiscarded ==
    (/\ pc = "loop"
     /\ min_heap # <<>>
     /\ heappop(min_heap).item[2] \in visited)
    => /\ distances' = distances
       /\ predecessors' = predecessors
       /\ visited' = visited
       /\ min_heap' = heappop(min_heap).heap
       /\ pushes' = pushes
       /\ relaxed' = relaxed
       /\ pc' = "loop"

\* no vertex had its for loop entered twice
RelaxedOnce ==
    \A i, j \in 1 .. Len(relaxed) : relaxed[i] = relaxed[j] => i = j

\* C16: an entry popped for a vertex already in visited is discarded:
\* distances, predecessors and visited stay as they are and nothing is
\* pushed; the outgoing edges of each vertex are relaxed in at most one
\* pass of the while loop of the run.
C16_StaleEntries == [][StaleEntryDiscarded]_vars /\ []RelaxedOnce

\* the run has popped and discarded a stale entry: more entries were
\* pushed than are on the heap or have made a vertex visited
C16_Witness ==
    /\ Running
    /\ pushes > Len(min_heap) + Cardinality(visited)

\* C17: the while loop ends with the heap empty, the run pushes at most
\* 1 + (number of edges) entries, and visited only grows.
C17_RunTerminates ==
    /\ (pc = "loop") ~> (pc = "done" /\ min_heap = <<>>)
    /\ [](Running => pushes <= 1 + EdgeCount(adjacency_list))
    /\ [][visited \subseteq visited']_vars

\* a run has ended after it pushed an entry for every edge of a graph of
\* three edges and visited three vertices
C17_Witness ==
    /\ pc = "done"
    /\ EdgeCount(adjacency_list) = 3
    /\ pushes = 4
    /\ Cardinality(visited) = 3

\* following predecessors from v for at most k steps: the vertices passed,
\* v first, up to the one without a predecessor
RECURSIVE BackPointers(_, _)
BackPointers(v, k) ==
    IF k = 0 \/ predecessors[v] = NONE THEN <<v>>
    ELSE <<v>> \o BackPointers(predecessors[v], k - 1)

\* C18: at every point of the run predecessors[source] is None,
\* predecessors[v] is not None exactly when v # source has a finite
\* distance, and the predecessors followed from such a v reach source
\* without a vertex twice, so that the while loop of get_path ends.
C18_PredecessorsRooted ==
    Running =>
        /\ predecessors[source] = NONE
        /\ \A v \in DOMAIN predecessors :
             /\ predecessors[v] # NONE <=> (v # source /\ distances[v] # INF)
             /\ distances[v] # INF =>
                  LET walk == BackPointers(v, vertices)
                  IN  /\ walk[Len(walk)] = source
                      /\ Cardinality({walk[i] : i \in 1 .. Len(walk)})
                           = Len(walk)
                      /\ GetPathReturns(v)

\* in the middle of a run on a graph with a zero-weight edge back to the
\* source, a vertex at distance 0 has two predecessors behind it
C18_Witness ==
    /\ pc = "for"
    /\ \E v \in DOMAIN predecessors :
         /\ Len(BackPointers(v, vertices)) = 3
         /\ \E i \in 1 .. Len(adjacency_list[v]) :
              /\ adjacency_list[v][i].destination = source
              /\ adjacency_list[v][i].weight = 0
         /\ distances[v] = 0

-----------------------------------------------------------------------------
(* What the claim about get_middle speaks of: every chain of a list, from  *)
(* its head and from each node after it                                    *)

\* the two parts sort makes of the chain from node: the chain up to
\* middle, cut off by middle.next = None, and the chain from next_to_middle
LeftPart(node) ==
    LET middle == get_middle(node, next)
    IN  Chain(node, [next EXCEPT ![middle] = NULL])

RightPart(node) == Chain(next[get_middle(node, next)], next)

\* C19: on a chain of n >= 1 nodes get_middle returns the node at 0-based
\* index (n-1) div 2; for n >= 2 sort splits the chain into a left part of
\* (n-1) div 2 + 1 nodes and a right part that is not empty, both shorter
\* than n; merge_sort_linked_list returns on every acyclic list, with a
\* list that is acyclic again.
C19_GetMiddle ==
    \A l \in Lists :
        Acyclic(head[l], next) =>
            /\ \A node \in {Chain(head[l], next)[i] :
                              i \in 1 .. Len(Chain(head[l], next))} :
                 LET chain == Chain(node, next)
                     n == Len(chain)
                 IN  /\ get_middle(node, next) = chain[((n - 1) \div 2) + 1]
                     /\ n >= 2 =>
                          /\ Len(LeftPart(node)) = ((n - 1) \div 2) + 1
                          /\ Len(LeftPart(node)) < n
                          /\ Len(RightPart(node)) >= 1
                          /\ Len(RightPart(node)) < n
                          /\ LeftPart(node) \o RightPart(node) = chain
            /\ LET sorted == MergeSortResult(l, head[l], next)
               IN  /\ sorted.result = l
                   /\ Acyclic(sorted.head, sorted.next)

\* a list of four nodes that are not in the order of their creation was
\* sorted by merge_sort_linked_list
C19_Witness ==
    /\ call.op = "merge_sort_linked_list"
    /\ Len(call.nodes) = 4
    /\ call.nodes # <<1, 2, 3, 4>>
    /\ Len(Chain(head[call.list], next)) = 4
    /\ get_middle(head[call.list], next) = Chain(head[call.list], next)[2]

=============================================================================
